---- MODULE Spec2Model ----
(***************************************************************************)
(* A model of the Bollinger-Bands back-tester: the strategy object          *)
(* (bollinger_strategy.py: generate_signals, backtest, optimize) and the    *)
(* metrics function (utils.py: calculate_performance_metrics).              *)
(*                                                                          *)
(* Numbers.  Closes are positive integers.  Every derived quantity that is  *)
(* rational in the closes (returns, means, variances, portfolio values) is  *)
(* an exact fraction [n, d].  A standard deviation is carried by its        *)
(* square (the sample variance), and a comparison against                   *)
(* "k * standard deviation" is decided exactly on the squares.  num_std is  *)
(* counted in units of 1/NumStdScale.  Floating-point rounding is not       *)
(* modelled.  NaN is the fraction with denominator 0.                       *)
(***************************************************************************)
EXTENDS Integers, Sequences, FiniteSets, TLC

(* ------------------------------ bounds --------------------------------- *)
MaxLen == 5        \* longest price series
MaxWindow == 3     \* largest window a strategy is constructed with

Closes == {1, 2, 3}                 \* the closing prices a series draws from
NumStdScale == 10                   \* num_std = 5 stands for 0.5
NumStds == {5}                      \* num_std a strategy is constructed with
Capitals == {100, 10000}            \* initial_capital passed to backtest

(* the price series: every sequence of closes of length 0 .. MaxLen *)
Series == UNION {[1..n -> Closes] : n \in 0..MaxLen}

(* a series that rises at every timestamp, of the longest length *)
Trend == [i \in 1..MaxLen |-> i * i]

(* ------------------------- exact fractions ----------------------------- *)
Abs(x) == IF x < 0 THEN -x ELSE x

RECURSIVE Gcd(_, _)
Gcd(a, b) == IF b = 0 THEN a ELSE Gcd(b, a % b)

Rat(n, d) ==
    LET g == Gcd(Abs(n), Abs(d))
        s == IF d < 0 THEN -1 ELSE 1
    IN  [n |-> (s * n) \div g, d |-> (s * d) \div g]

NaN == [n |-> 0, d |-> 0]
IsNaN(a) == a.d = 0
Zero == [n |-> 0, d |-> 1]
One == [n |-> 1, d |-> 1]
FromInt(i) == [n |-> i, d |-> 1]
RAdd(a, b) == Rat(a.n * b.d + b.n * a.d, a.d * b.d)
RSub(a, b) == Rat(a.n * b.d - b.n * a.d, a.d * b.d)
RMul(a, b) == Rat(a.n * b.n, a.d * b.d)
RDiv(a, b) == Rat(a.n * b.d, a.d * b.n)
RLess(a, b) == a.n * b.d < b.n * a.d
RLeq(a, b) == a.n * b.d <= b.n * a.d
RSign(a) == IF a.n > 0 THEN 1 ELSE IF a.n < 0 THEN -1 ELSE 0

RECURSIVE RSum(_, _)
RSum(s, i) == IF i = 0 THEN Zero ELSE RAdd(RSum(s, i - 1), s[i])

RECURSIVE RSumSq(_, _)
RSumSq(s, i) == IF i = 0 THEN Zero ELSE RAdd(RSumSq(s, i - 1), RMul(s[i], s[i]))

(* Series.mean() of a non-empty series *)
Mean(s) == RDiv(RSum(s, Len(s)), FromInt(Len(s)))

(* the square of Series.std() (ddof = 1): NaN for fewer than two values *)
Variance(s) ==
    IF Len(s) < 2 THEN NaN
    ELSE LET n == Len(s)
             sm == RSum(s, n)
         IN  RDiv(RSub(RSumSq(s, n), RDiv(RMul(sm, sm), FromInt(n))),
                  FromInt(n - 1))

(* x > k * sqrt(v), for fractions x, k and a variance v >= 0: on the       *)
(* squares, by the sign of k                                                *)
GtScaledRoot(x, k, v) ==
    LET x2 == RMul(x, x)
        kv == RMul(RMul(k, k), v)
    IN  IF RSign(k) >= 0
        THEN RSign(x) > 0 /\ RLess(kv, x2)
        ELSE RSign(x) > 0 \/ RLess(x2, kv)

(* --------------------------- generate_signals -------------------------- *)
(* the closes of the trailing window that ends at index i *)
WindowAt(data, window, i) == [j \in 1..window |-> FromInt(data[i - window + j])]

(* rolling(window).mean() at index i: NaN until `window` closes exist *)
middle_band(data, window, i) ==
    IF i < window THEN NaN ELSE Mean(WindowAt(data, window, i))

(* the square of rolling(window).std() at index i *)
rolling_var(data, window, i) ==
    IF i < window THEN NaN ELSE Variance(WindowAt(data, window, i))

(* df.dropna(): the indices whose bands are all defined *)
Trimmed(data, window) ==
    {i \in 1..Len(data) :
        ~IsNaN(middle_band(data, window, i)) /\ ~IsNaN(rolling_var(data, window, i))}

RECURSIVE SortedSeq(_)
SortedSeq(S) ==
    IF S = {} THEN <<>>
    ELSE LET m == CHOOSE x \in S : \A y \in S : x <= y
         IN  <<m>> \o SortedSeq(S \ {m})

(* the band frame: one row per trimmed index, in order *)
BandRows(data, window, idx) ==
    [r \in 1..Len(idx) |->
        [t |-> idx[r], Close |-> data[idx[r]],
         middle_band |-> middle_band(data, window, idx[r]),
         var |-> rolling_var(data, window, idx[r])]]

BandFrame(data, window) == BandRows(data, window, SortedSeq(Trimmed(data, window)))

K(num_std) == Rat(num_std, NumStdScale)

(* A band is the number mid + k * sqrt(var), carried by mid, k and var.     *)
(* upper_band with the deviation left out of the product                    *)
upper_band_unscaled(row, num_std) ==
    [mid |-> row.middle_band, k |-> K(num_std), var |-> One]

(* middle_band + (std * num_std) *)
upper_band(row, num_std) ==
    [mid |-> row.middle_band, k |-> K(num_std), var |-> row.var]

(* middle_band - (std * num_std) *)
lower_band(row, num_std) ==
    [mid |-> row.middle_band, k |-> K(-num_std), var |-> row.var]

(* Close < lower_band, lower_band = middle_band - num_std * std *)
below_lower(row, num_std) ==
    GtScaledRoot(RSub(row.middle_band, FromInt(row.Close)), K(num_std), row.var)

(* Close > upper_band, upper_band = middle_band + num_std * std *)
above_upper(row, num_std) ==
    GtScaledRoot(RSub(FromInt(row.Close), row.middle_band), K(num_std), row.var)

(* shift(1), with the first value set to False *)
was_below_lower(df, r, num_std) ==
    IF r = 1 THEN FALSE ELSE below_lower(df[r - 1], num_std)

(* was_above_upper shifted from below_lower *)
was_above_upper_from_below(df, r, num_std) ==
    IF r = 1 THEN FALSE ELSE below_lower(df[r - 1], num_std)

was_above_upper(df, r, num_std) ==
    IF r = 1 THEN FALSE ELSE above_upper(df[r - 1], num_std)

(* buy_condition without the negation of below_lower *)
buy_condition_still_below(df, r, num_std) ==
    was_below_lower(df, r, num_std) /\ below_lower(df[r], num_std)

buy_condition(df, r, num_std) ==
    was_below_lower(df, r, num_std) /\ ~below_lower(df[r], num_std)

(* sell_condition without the negation of above_upper *)
sell_condition_still_above(df, r, num_std) ==
    was_above_upper(df, r, num_std) /\ above_upper(df[r], num_std)

sell_condition(df, r, num_std) ==
    was_above_upper(df, r, num_std) /\ ~above_upper(df[r], num_std)

(* signal = 0; then 1 where buy_condition; then -1 where sell_condition *)
SignalAt(df, r, num_std) ==
    LET s0 == 0
        s1 == IF buy_condition(df, r, num_std) THEN 1 ELSE s0
    IN  IF sell_condition(df, r, num_std) THEN -1 ELSE s1

(* generate_signals: raises IndexError at index[0] when no row is left *)
SignalsOf(df, num_std) ==
    IF Len(df) = 0
    THEN [raised |-> TRUE, error |-> "IndexError", df |-> <<>>]
    ELSE [raised |-> FALSE, error |-> "",
          df |-> [r \in 1..Len(df) |->
                    [t |-> df[r].t, Close |-> df[r].Close,
                     middle_band |-> df[r].middle_band, var |-> df[r].var,
                     upper_band |-> upper_band(df[r], num_std),
                     lower_band |-> lower_band(df[r], num_std),
                     signal |-> SignalAt(df, r, num_std)]]]

generate_signals(data, window, num_std) ==
    SignalsOf(BandFrame(data, window), num_std)

(* ------------------------------- backtest ------------------------------ *)
(* PositionStep with the Sell branch not asking for a position *)
PositionStepSellWhenFlat(current_position, signal) ==
    IF signal = 1 /\ current_position = 0
    THEN [position |-> 1, position_status |-> "BUY & HOLD"]
    ELSE IF signal = -1
    THEN [position |-> 0, position_status |-> "SELL"]
    ELSE IF current_position = 1
    THEN [position |-> current_position, position_status |-> "HOLDING"]
    ELSE [position |-> current_position, position_status |-> "OUT OF MARKET"]

(* PositionStep with the Buy branch not asking for a flat position *)
PositionStepBuyWhenHeld(current_position, signal) ==
    IF signal = 1
    THEN [position |-> 1, position_status |-> "BUY & HOLD"]
    ELSE IF signal = -1 /\ current_position = 1
    THEN [position |-> 0, position_status |-> "SELL"]
    ELSE IF current_position = 1
    THEN [position |-> current_position, position_status |-> "HOLDING"]
    ELSE [position |-> current_position, position_status |-> "OUT OF MARKET"]

(* PositionStep with the Sell branch leaving current_position at 1 *)
PositionStepSellKeepsPosition(current_position, signal) ==
    IF signal = 1 /\ current_position = 0
    THEN [position |-> 1, position_status |-> "BUY & HOLD"]
    ELSE IF signal = -1 /\ current_position = 1
    THEN [position |-> current_position, position_status |-> "SELL"]
    ELSE IF current_position = 1
    THEN [position |-> current_position, position_status |-> "HOLDING"]
    ELSE [position |-> current_position, position_status |-> "OUT OF MARKET"]

(* one pass of the position loop: the new current_position and the status *)
PositionStep(current_position, signal) ==
    IF signal = 1 /\ current_position = 0
    THEN [position |-> 1, position_status |-> "BUY & HOLD"]
    ELSE IF signal = -1 /\ current_position = 1
    THEN [position |-> 0, position_status |-> "SELL"]
    ELSE IF current_position = 1
    THEN [position |-> current_position, position_status |-> "HOLDING"]
    ELSE [position |-> current_position, position_status |-> "OUT OF MARKET"]

(* the loop over i, current_position starting at 0 *)
RECURSIVE PositionLoop(_, _)
PositionLoop(signals, i) ==
    IF i = 0 THEN <<>>
    ELSE LET before == PositionLoop(signals, i - 1)
             current_position == IF i = 1 THEN 0 ELSE before[i - 1].position
         IN  Append(before, PositionStep(current_position, signals[i].signal))

(* returns taken to the next close instead of from the previous one *)
returns_forward(signals, i) ==
    IF i = Len(signals) THEN Zero
    ELSE RSub(RDiv(FromInt(signals[i + 1].Close), FromInt(signals[i].Close)), One)

(* pct_change(), its first value replaced by 0 *)
returns(signals, i) ==
    IF i = 1 THEN Zero
    ELSE RSub(RDiv(FromInt(signals[i].Close), FromInt(signals[i - 1].Close)), One)

(* prev_position without the shift *)
prev_position_unshifted(pos, i) == pos[i].position

(* position.shift(1).fillna(0) *)
prev_position(pos, i) == IF i = 1 THEN 0 ELSE pos[i - 1].position

strategy_returns(signals, pos, i) ==
    RMul(returns(signals, i), FromInt(prev_position(pos, i)))

(* (1 + strategy_returns).cumprod() *)
RECURSIVE cumulative_returns(_, _, _)
cumulative_returns(signals, pos, i) ==
    IF i = 0 THEN One
    ELSE RMul(cumulative_returns(signals, pos, i - 1),
              RAdd(One, strategy_returns(signals, pos, i)))

(* share_size taken from the last price instead of the first *)
share_size_last_price(signals, initial_capital) ==
    RDiv(FromInt(initial_capital), FromInt(signals[Len(signals)].Close))

share_size(signals, initial_capital) ==
    RDiv(FromInt(initial_capital), FromInt(signals[1].Close))

(* portfolio_value without the cumprod: only the latest factor *)
portfolio_value_uncompounded(signals, pos, i, initial_capital) ==
    RMul(FromInt(initial_capital), RAdd(One, strategy_returns(signals, pos, i)))

portfolio_value(signals, pos, i, initial_capital) ==
    RMul(FromInt(initial_capital), cumulative_returns(signals, pos, i))

holdings(signals, pos, i, initial_capital) ==
    RMul(RMul(FromInt(pos[i].position), FromInt(signals[i].Close)),
         share_size(signals, initial_capital))

PositionRow(signals, pos, i, pv, hold) ==
    [t |-> signals[i].t,
     price |-> signals[i].Close,
     signal |-> signals[i].signal,
     position |-> pos[i].position,
     position_status |-> pos[i].position_status,
     returns |-> returns(signals, i),
     strategy_returns |-> strategy_returns(signals, pos, i),
     portfolio_value |-> pv,
     holdings |-> hold,
     cash |-> RSub(pv, hold)]

PositionRows(signals, pos, initial_capital) ==
    [i \in 1..Len(signals) |->
        PositionRow(signals, pos, i,
                    portfolio_value(signals, pos, i, initial_capital),
                    holdings(signals, pos, i, initial_capital))]

PositionsFrame(signals, initial_capital) ==
    PositionRows(signals, PositionLoop(signals, Len(signals)), initial_capital)

(* signals[signals['signal'] != 0] *)
signal_points(signals) == SelectSeq(signals, LAMBDA row : row.signal # 0)

(* backtest: what the call gives back, or the exception it ends with *)
BacktestOf(sig, initial_capital) ==
    IF sig.raised
    THEN [kind |-> "backtest", raised |-> TRUE, error |-> sig.error,
          positions |-> <<>>, signal_points |-> <<>>]
    ELSE [kind |-> "backtest", raised |-> FALSE, error |-> "",
          positions |-> PositionsFrame(sig.df, initial_capital),
          signal_points |-> signal_points(sig.df)]

backtest(data, window, num_std, initial_capital) ==
    BacktestOf(generate_signals(data, window, num_std), initial_capital)

(* ---------------------- calculate_performance_metrics ------------------ *)
(* A Sharpe ratio (m / sqrt(v)) * sqrt(trading_days) is carried by its mean  *)
(* m and its variance v; inf = -1 marks -infinity (np.inf negated).          *)
trading_days == 252
DailyRiskFreeInv == 12725     \* (1 + 0.02) ** (1 / 252) - 1 is 1 / 12725.08...
daily_risk_free == Rat(1, DailyRiskFreeInv)

Sharpe(m, v) == [inf |-> 0, m |-> m, v |-> v]
SharpeZero == Sharpe(Zero, One)

(* best_sharpe starting at 0 *)
NegInfAsZero == Sharpe(Zero, One)

(* -np.inf *)
NegInf == [inf |-> -1, m |-> Zero, v |-> One]

(* sign(m) * m^2 / v: grows with m / sqrt(v) *)
SignedSq(a) ==
    LET q == RDiv(RMul(a.m, a.m), a.v)
    IN  Rat(RSign(a.m) * q.n, q.d)

(* a > b for two Sharpe ratios *)
SharpeGt(a, b) ==
    IF a.inf = -1 THEN FALSE
    ELSE IF b.inf = -1 THEN TRUE
    ELSE IF a.v = b.v THEN RLess(b.m, a.m)
    ELSE IF RSign(a.m) # RSign(b.m) THEN RSign(a.m) > RSign(b.m)
    ELSE RLess(SignedSq(b), SignedSq(a))

SharpeEq(a, b) == ~SharpeGt(a, b) /\ ~SharpeGt(b, a)

(* returns.std() >= 0 *)
StdPositiveOrZero(v) == ~IsNaN(v) /\ RSign(v) >= 0

(* returns.std() > 0: False for NaN *)
StdPositive(v) == ~IsNaN(v) /\ RSign(v) > 0

(* (1 + returns).cumprod() *)
RECURSIVE CumProd(_, _)
CumProd(rs, i) ==
    IF i = 0 THEN One ELSE RMul(CumProd(rs, i - 1), RAdd(One, rs[i]))

(* cumulative_returns.cummax() *)
RECURSIVE CumMax(_, _)
CumMax(rs, i) ==
    IF i = 1 THEN CumProd(rs, 1)
    ELSE LET m == CumMax(rs, i - 1)
             c == CumProd(rs, i)
         IN  IF RLess(m, c) THEN c ELSE m

drawdown(rs, i) == RSub(RDiv(CumProd(rs, i), CumMax(rs, i)), One)

(* drawdown.min(): NaN for an empty series *)
RECURSIVE MinDrawdown(_, _)
MinDrawdown(rs, i) ==
    IF i = 0 THEN NaN
    ELSE IF i = 1 THEN drawdown(rs, 1)
    ELSE LET m == MinDrawdown(rs, i - 1)
             d == drawdown(rs, i)
         IN  IF RLess(d, m) THEN d ELSE m

Wins(rs) == Cardinality({i \in 1..Len(rs) : RSign(rs[i]) > 0})

(* 'Annualized Return' is base ** exp - 1, carried by base and exp;          *)
(* 'Annualized Volatility' is carried by its square.                         *)
calculate_performance_metrics(initial_capital, final_capital, rs) ==
    LET total_return == RDiv(RSub(final_capital, initial_capital), initial_capital)
        n == Len(rs)
        period_years == Rat(n, trading_days)
        complete_loss == RLeq(total_return, FromInt(-1))
        daily_var == Variance(rs)
    IN  IF ~complete_loss /\ RSign(period_years) = 0
        THEN [kind |-> "metrics", raised |-> TRUE, error |-> "ZeroDivisionError"]
        ELSE [kind |-> "metrics", raised |-> FALSE, error |-> "",
              total_return |-> total_return,
              annualized_return |->
                  IF complete_loss THEN [base |-> Zero, exp |-> One]
                  ELSE [base |-> RAdd(One, total_return),
                        exp |-> RDiv(One, period_years)],
              annualized_var |->
                  IF IsNaN(daily_var) THEN NaN
                  ELSE RMul(daily_var, FromInt(trading_days)),
              sharpe_ratio |->
                  IF StdPositive(daily_var)
                  THEN Sharpe(RSub(Mean(rs), daily_risk_free), daily_var)
                  ELSE SharpeZero,
              max_drawdown |-> MinDrawdown(rs, n),
              win_rate |-> IF n > 0 THEN Rat(Wins(rs), n) ELSE Zero]

(* ------------------------------- optimize ------------------------------ *)
None == -1                  \* best_window = None, best_num_std = None
DefaultCapital == 10000     \* backtest's default initial_capital
FallbackWindow == 20
FallbackNumStd == 20        \* 2.0

(* range(window_range[0], window_range[1] + 1) *)
window_sizes(window_range) ==
    [i \in 1..(window_range[2] + 1 - window_range[1]) |-> window_range[1] + i - 1]

CeilDiv(a, b) == IF a <= 0 THEN 0 ELSE (a + b - 1) \div b

(* np.arange(start, stop, step): ceil((stop - start) / step) values *)
Arange(start, stop, step) ==
    [i \in 1..CeilDiv(stop - start, step) |-> start + (i - 1) * step]

(* np.arange(num_std_range[0], num_std_range[1] + step_size, step_size) *)
num_stds(num_std_range, step_size) ==
    Arange(num_std_range[1], num_std_range[2] + step_size, step_size)

(* the cells in iteration order: for window ...: for num_std ...: *)
Cells(ws, ns) ==
    [k \in 1..(Len(ws) * Len(ns)) |->
        [window |-> ws[((k - 1) \div Len(ns)) + 1],
         num_std |-> ns[((k - 1) % Len(ns)) + 1]]]

StrategyReturns(positions) == [i \in 1..Len(positions) |-> positions[i].strategy_returns]

(* sharpe = (returns.mean() / returns.std()) * np.sqrt(252) *)
CellSharpe(rs) == Sharpe(Mean(rs), Variance(rs))

(* if len(returns) > 0 and returns.std() > 0 *)
HasSharpe(rs) == Len(rs) > 0 /\ StdPositive(Variance(rs))

(* CellOutcome with a zero Sharpe ratio given to a series without one *)
CellOutcomeZeroSharpe(bt, rs) ==
    IF bt.raised THEN [outcome |-> "raised", sharpe |-> NegInf]
    ELSE IF Len(bt.positions) = 0 THEN [outcome |-> "empty", sharpe |-> NegInf]
    ELSE IF HasSharpe(rs)
    THEN [outcome |-> "candidate", sharpe |-> CellSharpe(rs)]
    ELSE [outcome |-> "candidate", sharpe |-> SharpeZero]

(* the try block after the backtest: what the cell gave *)
CellOutcome(bt, rs) ==
    IF bt.raised THEN [outcome |-> "raised", sharpe |-> NegInf]
    ELSE IF Len(bt.positions) = 0 THEN [outcome |-> "empty", sharpe |-> NegInf]
    ELSE IF HasSharpe(rs)
    THEN [outcome |-> "candidate", sharpe |-> CellSharpe(rs)]
    ELSE [outcome |-> "skipped", sharpe |-> NegInf]

CellOf(bt) == CellOutcome(bt, StrategyReturns(bt.positions))

(* the body of the try block for one cell *)
EvaluateCell(d, w, k) == CellOf(backtest(d, w, k, DefaultCapital))

(* if sharpe >= best_sharpe *)
ImprovesOrEqual(sharpe, best) == ~SharpeGt(best, sharpe)

(* if sharpe > best_sharpe *)
Improves(sharpe, best) == SharpeGt(sharpe, best)

(* ------------------------------- state --------------------------------- *)
VARIABLES
    data,          \* the caller's price series (the 'Close' column)
    window,        \* self.window
    num_std,       \* self.num_std
    args,          \* the arguments of the most recent call
    ret,           \* what the most recent call returned (or raised)
    pc,            \* "idle", or "loop" while optimize is iterating
    cells,         \* optimize: the (window, num_std) pairs in iteration order
    cell,          \* optimize: the index of the next pair
    best_sharpe,   \* optimize: best_sharpe
    best_window,   \* optimize: best_window
    best_num_std,  \* optimize: best_num_std
    evaluated      \* optimize: the pairs evaluated so far, with what each gave

vars == <<data, window, num_std, args, ret, pc, cells, cell,
          best_sharpe, best_window, best_num_std, evaluated>>

optvars == <<pc, cells, cell, best_sharpe, best_window, best_num_std, evaluated>>

NoCall == [kind |-> "none"]

(* the grids optimize is called with *)
OptimizeCalls ==
    {[window_range |-> <<1, 2>>, num_std_range |-> <<5, 10>>, step_size |-> 5],
     [window_range |-> <<2, MaxLen + 1>>, num_std_range |-> <<5, 12>>, step_size |-> 5],
     [window_range |-> <<3, 2>>, num_std_range |-> <<5, 10>>, step_size |-> 5]}

(* the arguments calculate_performance_metrics is called with directly *)
ReturnSeries ==
    {<<>>, <<Zero>>, <<Zero, Zero>>, <<Zero, Zero, Zero>>,
     <<Rat(1, 2), Rat(1, 2)>>, <<Rat(1, 2), Rat(-1, 3)>>,
     <<Zero, Rat(1, 2), Rat(-1, 3)>>, <<Rat(-1, 2), Zero, Rat(-1, 2)>>}
FinalCapitals == {0, 100, 150, 10000}
MetricsCalls ==
    {[kind |-> "metrics", initial_capital |-> FromInt(c),
      final_capital |-> FromInt(f), returns |-> rs] :
        c \in Capitals, f \in FinalCapitals, rs \in ReturnSeries}

OptimizerIdle ==
    /\ pc = "idle"
    /\ cells = <<>>
    /\ cell = 0
    /\ best_sharpe = NegInf
    /\ best_window = None
    /\ best_num_std = None
    /\ evaluated = <<>>

(* a strategy constructed with (window, num_std), and a fetched series *)
Init ==
    /\ data \in Series \cup {Trend}
    /\ window \in 1..MaxWindow
    /\ num_std \in NumStds
    /\ args = NoCall
    /\ ret = NoCall
    /\ OptimizerIdle

(* Backtest working on the caller's frame: the rows without bands are gone *)
BacktestOnCallersFrame ==
    /\ pc = "idle"
    /\ \E initial_capital \in Capitals :
           /\ args' = [kind |-> "backtest", initial_capital |-> initial_capital]
           /\ ret' = backtest(data, window, num_std, initial_capital)
    /\ data' = SubSeq(data, window, Len(data))
    /\ UNCHANGED <<window, num_std, optvars>>

(* strategy.backtest(data, initial_capital) *)
Backtest ==
    /\ pc = "idle"
    /\ \E initial_capital \in Capitals :
           /\ args' = [kind |-> "backtest", initial_capital |-> initial_capital]
           /\ ret' = backtest(data, window, num_std, initial_capital)
    /\ UNCHANGED <<data, window, num_std, optvars>>

(* optimize, up to the loops: the locals and the two ranges *)
OptimizeStart ==
    /\ pc = "idle"
    /\ ret = NoCall
    /\ \E c \in OptimizeCalls :
           /\ args' = [kind |-> "optimize", window_range |-> c.window_range,
                       num_std_range |-> c.num_std_range, step_size |-> c.step_size]
           /\ cells' = Cells(window_sizes(c.window_range),
                             num_stds(c.num_std_range, c.step_size))
    /\ best_sharpe' = NegInf
    /\ best_window' = None
    /\ best_num_std' = None
    /\ cell' = 1
    /\ evaluated' = <<>>
    /\ pc' = "loop"
    /\ UNCHANGED <<data, window, num_std, ret>>

Evaluated(c, e) ==
    [window |-> c.window, num_std |-> c.num_std,
     outcome |-> e.outcome, sharpe |-> e.sharpe]

CurrentBest ==
    [sharpe |-> best_sharpe, window |-> best_window, num_std |-> best_num_std]

(* BestAfter without the comparison: the latest candidate wins *)
BestAfterLatest(e, best) ==
    IF e.outcome = "candidate"
    THEN [sharpe |-> e.sharpe, window |-> e.window, num_std |-> e.num_std]
    ELSE best

(* BestAfter with a failing cell losing what was found *)
BestAfterLostOnError(e, best) ==
    IF e.outcome = "raised"
    THEN [sharpe |-> NegInf, window |-> None, num_std |-> None]
    ELSE IF e.outcome = "candidate" /\ Improves(e.sharpe, best.sharpe)
    THEN [sharpe |-> e.sharpe, window |-> e.window, num_std |-> e.num_std]
    ELSE best

(* the best triple after a cell that gave e *)
BestAfter(e, best) ==
    IF e.outcome = "candidate" /\ Improves(e.sharpe, best.sharpe)
    THEN [sharpe |-> e.sharpe, window |-> e.window, num_std |-> e.num_std]
    ELSE best

(* optimize: one pass of the loop body *)
OptimizeCell ==
    /\ pc = "loop"
    /\ cell <= Len(cells)
    /\ window' = cells[cell].window
    /\ num_std' = cells[cell].num_std
    /\ evaluated' = Append(evaluated,
           Evaluated(cells[cell], EvaluateCell(data, cells[cell].window,
                                               cells[cell].num_std)))
    /\ best_sharpe' = BestAfter(evaluated'[cell], CurrentBest).sharpe
    /\ best_window' = BestAfter(evaluated'[cell], CurrentBest).window
    /\ best_num_std' = BestAfter(evaluated'[cell], CurrentBest).num_std
    /\ cell' = cell + 1
    /\ UNCHANGED <<data, args, ret, pc, cells>>

(* OptimizeFinish without the reset: the last pair tried stays in place *)
OptimizeFinishNoReset ==
    /\ pc = "loop"
    /\ cell > Len(cells)
    /\ LET failed == best_window = None \/ best_num_std = None
           bw == IF failed THEN FallbackWindow ELSE best_window
           bn == IF failed THEN FallbackNumStd ELSE best_num_std
           bs == IF failed THEN SharpeZero ELSE best_sharpe
       IN  /\ best_window' = bw
           /\ best_num_std' = bn
           /\ best_sharpe' = bs
           /\ ret' = [kind |-> "optimize", raised |-> FALSE,
                      best_window |-> bw, best_num_std |-> bn, best_sharpe |-> bs]
    /\ pc' = "idle"
    /\ UNCHANGED <<data, window, num_std, args, cells, cell, evaluated>>

(* optimize, after the loops: the fallback, the reset and the return *)
OptimizeFinish ==
    /\ pc = "loop"
    /\ cell > Len(cells)
    /\ LET failed == best_window = None \/ best_num_std = None
           bw == IF failed THEN FallbackWindow ELSE best_window
           bn == IF failed THEN FallbackNumStd ELSE best_num_std
           bs == IF failed THEN SharpeZero ELSE best_sharpe
       IN  /\ best_window' = bw
           /\ best_num_std' = bn
           /\ best_sharpe' = bs
           /\ window' = bw
           /\ num_std' = bn
           /\ ret' = [kind |-> "optimize", raised |-> FALSE,
                      best_window |-> bw, best_num_std |-> bn, best_sharpe |-> bs]
    /\ pc' = "idle"
    /\ UNCHANGED <<data, args, cells, cell, evaluated>>

Next ==
    \/ Backtest
    \/ OptimizeStart
    \/ OptimizeCell
    \/ OptimizeFinish

Spec == Init /\ [][Next]_vars

(* ---- calculate_performance_metrics as a function of its arguments ----- *)
MetricsInit ==
    /\ data = <<>>
    /\ window = FallbackWindow
    /\ num_std = FallbackNumStd
    /\ args \in MetricsCalls
    /\ ret = NoCall
    /\ OptimizerIdle

MetricsCall ==
    /\ ret = NoCall
    /\ args.kind = "metrics"
    /\ ret' = calculate_performance_metrics(
                  args.initial_capital, args.final_capital, args.returns)
    /\ UNCHANGED <<data, window, num_std, args, optvars>>

MetricsNext == MetricsCall

MetricsSpec == MetricsInit /\ [][MetricsNext]_vars

(* ---- generate_signals and backtest as functions of their arguments ---- *)
(* the series of the worked example *)
Scenario == <<100, 102, 104, 95, 90, 96, 110, 108, 95, 100>>
SignalNumStds == {-10, 5, 10}

SignalsInit ==
    /\ data \in Series \cup {Scenario}
    /\ window \in 1..MaxWindow
    /\ num_std \in SignalNumStds
    /\ args = NoCall
    /\ ret = NoCall
    /\ OptimizerIdle

SignalsRet(sig) ==
    [kind |-> "signals", raised |-> sig.raised, error |-> sig.error, df |-> sig.df]

(* strategy.generate_signals(data) *)
GenerateSignals ==
    /\ pc = "idle"
    /\ args' = [kind |-> "signals"]
    /\ ret' = SignalsRet(generate_signals(data, window, num_std))
    /\ UNCHANGED <<data, window, num_std, optvars>>

SignalsNext ==
    \/ GenerateSignals
    \/ Backtest

SignalsSpec == SignalsInit /\ [][SignalsNext]_vars

(* ======================= the position simulator ======================== *)
BacktestDone == ret.kind = "backtest" /\ ~ret.raised
Rows == ret.positions
Before(i) == IF i = 1 THEN 0 ELSE Rows[i - 1].position

(* the transition table of the simulator: (state, signal) -> (state, status) *)
TableRow(state, signal) ==
    CASE state = 0 /\ signal = 1 -> <<1, "BUY & HOLD">>
      [] state = 1 /\ signal = -1 -> <<0, "SELL">>
      [] state = 1 /\ signal \in {0, 1} -> <<1, "HOLDING">>
      [] state = 0 /\ signal \in {0, -1} -> <<0, "OUT OF MARKET">>

(* C1: a backtest starts Flat and applies the transition table at every     *)
(* timestamp, in order; a Buy while InMarket and a Sell while Flat change   *)
(* nothing; the only backtest that raises is one with no trimmed row.       *)
C1_TransitionTable ==
    /\ BacktestDone =>
          \A i \in 1..Len(Rows) :
              /\ Rows[i].signal \in {-1, 0, 1}
              /\ <<Rows[i].position, Rows[i].position_status>>
                     = TableRow(Before(i), Rows[i].signal)
              /\ (Before(i) = 1 /\ Rows[i].signal = 1) => Rows[i].position = 1
              /\ (Before(i) = 0 /\ Rows[i].signal = -1) => Rows[i].position = 0
    /\ (ret.kind = "backtest" /\ ret.raised) => Len(data) < window \/ window < 2

(* a run with an executed Buy followed by a Buy ignored while InMarket *)
C1_Witness ==
    /\ BacktestDone
    /\ \E i \in 1..Len(Rows) : Rows[i].position_status = "BUY & HOLD"
    /\ \E i \in 1..Len(Rows) :
           Before(i) = 1 /\ Rows[i].signal = 1 /\ Rows[i].position_status = "HOLDING"

(* C10: position is 0 or 1, and each status names the transition that       *)
(* produced it (position[-1] taken as 0).                                   *)
C10_StatusTransition ==
    BacktestDone =>
        \A i \in 1..Len(Rows) :
            /\ Rows[i].position \in {0, 1}
            /\ Rows[i].position_status
                   \in {"BUY & HOLD", "SELL", "HOLDING", "OUT OF MARKET"}
            /\ Rows[i].position_status = "BUY & HOLD"
                   => Before(i) = 0 /\ Rows[i].position = 1
            /\ Rows[i].position_status = "SELL"
                   => Before(i) = 1 /\ Rows[i].position = 0
            /\ Rows[i].position_status = "HOLDING"
                   => Before(i) = 1 /\ Rows[i].position = 1
            /\ Rows[i].position_status = "OUT OF MARKET"
                   => Before(i) = 0 /\ Rows[i].position = 0

(* a run in which all four statuses occur *)
C10_Witness ==
    /\ BacktestDone
    /\ \A st \in {"BUY & HOLD", "SELL", "HOLDING", "OUT OF MARKET"} :
           \E i \in 1..Len(Rows) : Rows[i].position_status = st

(* ============================ the returns ============================== *)
CloseAt(i) == data[Rows[i].t]

(* C2: periodReturn[0] = 0 and periodReturn[t] = close[t]/close[t-1] - 1,   *)
(* and strategyReturn[t] = periodReturn[t] * position[t-1] (0 at t = 0):    *)
(* the bar of a Buy earns nothing, the bar of a Sell still earns.           *)
C2_LaggedReturns ==
    BacktestDone =>
        \A i \in 1..Len(Rows) :
            /\ Rows[i].price = CloseAt(i)
            /\ i = 1 => Rows[i].returns = Zero /\ Rows[i].strategy_returns = Zero
            /\ i > 1 =>
                  /\ Rows[i].returns.d > 0
                  /\ Rows[i].returns.n * CloseAt(i - 1)
                         = (CloseAt(i) - CloseAt(i - 1)) * Rows[i].returns.d
                  /\ Rows[i].strategy_returns
                         = IF Rows[i - 1].position = 1 THEN Rows[i].returns ELSE Zero

(* a Buy executed on a bar that moved (and earned nothing), and a Sell      *)
(* executed on a bar that moved (and earned its return)                     *)
C2_Witness ==
    /\ BacktestDone
    /\ \E i \in 1..Len(Rows) :
           /\ Rows[i].position_status = "BUY & HOLD"
           /\ Rows[i].returns # Zero
           /\ Rows[i].strategy_returns = Zero
    /\ \E i \in 1..Len(Rows) :
           /\ Rows[i].position_status = "SELL"
           /\ Rows[i].strategy_returns # Zero

(* ============================ the signals ============================== *)
(* the band predicates on integers: with S and Q the sum and the sum of     *)
(* squares of the window ending at t, mean = S/w, std^2 = (wQ - S^2)/(w(w-1)) *)
RECURSIVE SumFrom(_, _, _)
SumFrom(d, lo, hi) == IF lo > hi THEN 0 ELSE d[hi] + SumFrom(d, lo, hi - 1)
RECURSIVE SumSqFrom(_, _, _)
SumSqFrom(d, lo, hi) == IF lo > hi THEN 0 ELSE d[hi] * d[hi] + SumSqFrom(d, lo, hi - 1)

WinSum(t) == SumFrom(data, t - window + 1, t)
WinVarN(t) == window * SumSqFrom(data, t - window + 1, t) - WinSum(t) * WinSum(t)

(* |gap| / w > (num_std / NumStdScale) * std, for gap > 0 and num_std > 0 *)
Outside(gap, t) ==
    /\ gap > 0
    /\ NumStdScale * NumStdScale * gap * gap * (window - 1)
           > num_std * num_std * window * WinVarN(t)

belowLower(t) == Outside(WinSum(t) - window * data[t], t)
aboveUpper(t) == Outside(window * data[t] - WinSum(t), t)

ExpectedSignal(i) ==
    LET t == window + i - 1
    IN  IF i > 1 /\ belowLower(t - 1) /\ ~belowLower(t) THEN 1
        ELSE IF i > 1 /\ aboveUpper(t - 1) /\ ~aboveUpper(t) THEN -1
        ELSE 0

(* C3: over the trimmed timestamps (window-1 onward), with num_std > 0,     *)
(* signal = Buy iff belowLower[t-1] and not belowLower[t], Sell iff         *)
(* aboveUpper[t-1] and not aboveUpper[t], None otherwise; the first         *)
(* trimmed timestamp has signal None.                                       *)
C3_Signals ==
    BacktestDone =>
        /\ Len(Rows) = Len(data) - window + 1
        /\ \A i \in 1..Len(Rows) :
               LET t == window + i - 1
               IN  /\ Rows[i].t = t
                   /\ Rows[i].signal = 1
                          <=> (i > 1 /\ belowLower(t - 1) /\ ~belowLower(t))
                   /\ Rows[i].signal = -1
                          <=> (i > 1 /\ aboveUpper(t - 1) /\ ~aboveUpper(t))
                   /\ Rows[i].signal = ExpectedSignal(i)
                   /\ i = 1 => Rows[i].signal = 0

(* a run whose first trimmed close is below the lower band (signal None     *)
(* there), with a Buy and later a Sell                                      *)
C3_Witness ==
    /\ BacktestDone
    /\ belowLower(window)
    /\ Rows[1].signal = 0
    /\ \E i, j \in 1..Len(Rows) : i < j /\ Rows[i].signal = 1 /\ Rows[j].signal = -1

(* ======================== the empty-input abort ======================== *)
(* C4: with no timestamp that has bands (empty series, or fewer closes than *)
(* window), backtest returns the empty sentinel and does not raise.         *)
C4_EmptySentinel ==
    (ret.kind = "backtest" /\ Len(data) < window) =>
        /\ ~ret.raised
        /\ ret.positions = <<>>
        /\ ret.signal_points = <<>>

(* C5: calculate_performance_metrics on an empty return series does not     *)
(* raise and gives winRate = 0 and sharpeRatio = 0.                         *)
C5_EmptyReturns ==
    (ret.kind = "metrics" /\ Len(args.returns) = 0
         /\ RSign(args.initial_capital) > 0) =>
        /\ ~ret.raised
        /\ ret.win_rate = Zero
        /\ SharpeEq(ret.sharpe_ratio, SharpeZero)

(* ============================ the optimizer ============================ *)
OptimizeDone == ret.kind = "optimize"
Returned == <<ret.best_window, ret.best_num_std>>
PairAt(i) == <<cells[i].window, cells[i].num_std>>

(* the strategy returns of a pair, from a backtest of its own *)
ReturnsOf(w, k) == StrategyReturns(backtest(data, w, k, DefaultCapital).positions)
Raises(w, k) == backtest(data, w, k, DefaultCapital).raised

(* sign(mean) * mean^2 / std^2 of a return series, on its sums:             *)
(* mean = T/n and std^2 = (n*U - T^2) / (n*(n-1)), T the sum, U the sum of  *)
(* squares                                                                  *)
ScoreParts(n, T, U) ==
    IF n >= 2 /\ RSign(RSub(RMul(FromInt(n), U), RMul(T, T))) > 0
    THEN [scored |-> TRUE,
          score |-> RDiv(RMul(FromInt(RSign(T) * (n - 1)), RMul(T, T)),
                         RMul(FromInt(n), RSub(RMul(FromInt(n), U), RMul(T, T))))]
    ELSE [scored |-> FALSE, score |-> Zero]

ScoreOfReturns(rs) == ScoreParts(Len(rs), RSum(rs, Len(rs)), RSumSq(rs, Len(rs)))

ScoreOfBacktest(bt) ==
    IF bt.raised THEN [scored |-> FALSE, score |-> Zero]
    ELSE ScoreOfReturns(StrategyReturns(bt.positions))

(* the score of each pair of the grid, in iteration order *)
RECURSIVE Scores(_)
Scores(n) ==
    IF n = 0 THEN <<>>
    ELSE Append(Scores(n - 1),
                ScoreOfBacktest(backtest(data, cells[n].window, cells[n].num_std,
                                         DefaultCapital)))

CandidatesIn(sc) == {i \in 1..Len(sc) : sc[i].scored}
Candidates == CandidatesIn(Scores(Len(cells)))

(* C6 as stated: the returned bestSharpe is the sharpeRatio of the metrics  *)
(* function (mean of the returns in excess of the daily risk-free rate,     *)
(* over stdDev, times sqrt(252)) on the returned pair's strategy returns.   *)
MetricsSharpe(rs) ==
    calculate_performance_metrics(FromInt(DefaultCapital), FromInt(DefaultCapital), rs)
        .sharpe_ratio

C6_MetricsSharpe ==
    (OptimizeDone /\ Candidates # {}) =>
        SharpeEq(ret.best_sharpe,
                 MetricsSharpe(ReturnsOf(ret.best_window, ret.best_num_std)))

(* C6 amended: optimize returns a pair whose score mean(R)/stdDev(R) *      *)
(* sqrt(252), with no risk-free rate deducted, is maximal among the pairs   *)
(* that give a score; the returned bestSharpe is that score.                *)
C6_MaxOwnSharpe ==
    OptimizeDone =>
        LET sc == Scores(Len(cells))
        IN  CandidatesIn(sc) # {} =>
                /\ ret.best_sharpe.inf = 0
                /\ \E i \in CandidatesIn(sc) :
                       /\ PairAt(i) = Returned
                       /\ SignedSq(ret.best_sharpe) = sc[i].score
                /\ \A j \in CandidatesIn(sc) :
                       RLeq(sc[j].score, SignedSq(ret.best_sharpe))

(* a search with two candidates of different score, the later one better *)
C6_Witness ==
    /\ OptimizeDone
    /\ LET sc == Scores(Len(cells))
       IN  \E i, j \in CandidatesIn(sc) :
               i < j /\ RLess(sc[i].score, sc[j].score) /\ PairAt(j) = Returned

(* the grid of the claim: windows ascending, then sMin + k*stepSize <= sMax *)
ExpectedNumStds(num_std_range, step_size) ==
    [i \in 1..(IF num_std_range[2] < num_std_range[1] THEN 0
               ELSE (num_std_range[2] - num_std_range[1]) \div step_size + 1)
        |-> num_std_range[1] + (i - 1) * step_size]

ExpectedGrid ==
    Cells(window_sizes(args.window_range),
          ExpectedNumStds(args.num_std_range, args.step_size))

(* C7: optimize evaluates exactly the grid {(w, sMin + k*stepSize)} with    *)
(* sMin + k*stepSize <= sMax, each pair once, in order; no numStd above     *)
(* sMax is evaluated or returned.                                           *)
C7_ExactGrid ==
    OptimizeDone =>
        /\ Len(evaluated) = Len(ExpectedGrid)
        /\ \A i \in 1..Len(evaluated) :
               /\ evaluated[i].window = ExpectedGrid[i].window
               /\ evaluated[i].num_std = ExpectedGrid[i].num_std
               /\ evaluated[i].num_std <= args.num_std_range[2]
        /\ Candidates # {} => ret.best_num_std <= args.num_std_range[2]

(* C8: with no candidate optimize returns (20, 2.0, 0.0); with a candidate  *)
(* it returns a candidate and its score, never the fallback in its place,   *)
(* also when every score is negative; it does not raise.                    *)
C8_Fallback ==
    OptimizeDone =>
        LET sc == Scores(Len(cells))
        IN  /\ ~ret.raised
            /\ CandidatesIn(sc) = {} =>
                   /\ Returned = <<FallbackWindow, FallbackNumStd>>
                   /\ ret.best_sharpe = SharpeZero
            /\ CandidatesIn(sc) # {} =>
                   \E i \in CandidatesIn(sc) :
                       /\ PairAt(i) = Returned
                       /\ ret.best_sharpe.inf = 0
                       /\ SignedSq(ret.best_sharpe) = sc[i].score

(* a search whose candidates all score below zero, one of them returned *)
C8_Witness ==
    /\ OptimizeDone
    /\ LET sc == Scores(Len(cells))
       IN  /\ CandidatesIn(sc) # {}
           /\ \A i \in CandidatesIn(sc) : RSign(sc[i].score) < 0
    /\ ret.best_sharpe.inf = 0
    /\ RSign(ret.best_sharpe.m) < 0

(* C9: a cell whose evaluation raises is skipped: the best triple is left   *)
(* as it was, the loop goes on to the next cell, every cell of the grid is  *)
(* evaluated by the time optimize returns, and optimize does not raise.     *)
C9_FailingCellSkipped ==
    /\ [][(pc = "loop" /\ cell <= Len(cells)
             /\ Raises(cells[cell].window, cells[cell].num_std))
          => /\ best_sharpe' = best_sharpe
             /\ best_window' = best_window
             /\ best_num_std' = best_num_std
             /\ pc' = "loop"
             /\ cells' = cells
             /\ cell' = cell + 1]_vars
    /\ [](OptimizeDone =>
             /\ ~ret.raised
             /\ Len(evaluated) = Len(cells)
             /\ \A i \in 1..Len(cells) :
                    <<evaluated[i].window, evaluated[i].num_std>> = PairAt(i))

(* a cell that raised after a candidate was found, with a cell after it *)
C9_Witness ==
    /\ pc = "loop"
    /\ \E i, j, l \in 1..Len(evaluated) :
           /\ i < j /\ j < l
           /\ evaluated[i].outcome = "candidate"
           /\ evaluated[j].outcome = "raised"
           /\ best_window = evaluated[i].window

(* ============================ the valuation ============================ *)
(* initial_capital * product over j <= i of (1 + strategy_returns[j]), on   *)
(* the rows a backtest returned                                             *)
RECURSIVE Compounded(_)
Compounded(i) ==
    IF i = 0 THEN FromInt(args.initial_capital)
    ELSE RMul(Compounded(i - 1), RAdd(One, Rows[i].strategy_returns))

(* C11: portfolioValue[t] = initialCapital * product over i <= t of         *)
(* (1 + strategyReturn[i]); portfolioValue[0] = initialCapital, and         *)
(* portfolioValue[t] = portfolioValue[t-1] * (1 + strategyReturn[t]), t > 0 *)
C11_Compounding ==
    BacktestDone =>
        \A i \in 1..Len(Rows) :
            /\ Rows[i].portfolio_value = Compounded(i)
            /\ i = 1 => Rows[i].portfolio_value = FromInt(args.initial_capital)
            /\ i > 1 => Rows[i].portfolio_value
                            = RMul(Rows[i - 1].portfolio_value,
                                   RAdd(One, Rows[i].strategy_returns))

(* a run in which the value is compounded over two bars that both moved it *)
C11_Witness ==
    /\ BacktestDone
    /\ \E i, j \in 1..Len(Rows) :
           /\ i < j
           /\ Rows[i].strategy_returns # Zero
           /\ Rows[j].strategy_returns # Zero
           /\ Rows[j].portfolio_value # FromInt(args.initial_capital)

(* C12: holdings[t] = position[t] * close[t] * shareSize and cash[t] =      *)
(* portfolioValue[t] - holdings[t], with shareSize = initialCapital /       *)
(* close[0] (the close of the first record) the same at every timestamp.    *)
C12_HoldingsCash ==
    BacktestDone =>
        \A i \in 1..Len(Rows) :
            /\ ~IsNaN(Rows[i].holdings)
            /\ Rows[i].holdings.n * CloseAt(1)
                   = Rows[i].position * CloseAt(i) * args.initial_capital
                         * Rows[i].holdings.d
            /\ RAdd(Rows[i].cash, Rows[i].holdings) = Rows[i].portfolio_value
            /\ Rows[i].position = 0 => Rows[i].cash = Rows[i].portfolio_value

(* a run that holds a position bought at a price other than the first close *)
C12_Witness ==
    /\ BacktestDone
    /\ \E i, j \in 1..Len(Rows) :
           /\ i < j
           /\ Rows[i].position_status = "BUY & HOLD"
           /\ CloseAt(i) # CloseAt(1)
           /\ Rows[j].position = 1
           /\ CloseAt(j) # CloseAt(1)
           /\ CloseAt(j) # CloseAt(i)

(* ====================== Buy and Sell never coincide ==================== *)
SignalsDone == ret.kind = "signals" /\ ~ret.raised

(* C13: for window >= 2 and num_std > 0 the Buy condition and the Sell      *)
(* condition are never both true at a timestamp, so no timestamp has a Buy  *)
(* and a Sell and the Sell assignment never overwrites a Buy.               *)
C13_BuySellExclusive ==
    (SignalsDone /\ window >= 2 /\ num_std > 0) =>
        \A r \in 1..Len(ret.df) :
            LET t == window + r - 1
            IN  /\ ~(buy_condition(ret.df, r, num_std)
                       /\ sell_condition(ret.df, r, num_std))
                /\ ~(/\ r > 1 /\ belowLower(t - 1) /\ ~belowLower(t)
                     /\ aboveUpper(t - 1) /\ ~aboveUpper(t))
                /\ buy_condition(ret.df, r, num_std) => ret.df[r].signal = 1
                /\ sell_condition(ret.df, r, num_std) => ret.df[r].signal = -1

(* a frame with a Buy at one timestamp and a Sell at another *)
C13_Witness ==
    /\ SignalsDone /\ window >= 2 /\ num_std > 0
    /\ \E r \in 1..Len(ret.df) : buy_condition(ret.df, r, num_std)
    /\ \E r \in 1..Len(ret.df) : sell_condition(ret.df, r, num_std)

(* ============================ the band frame =========================== *)
(* row r of the frame is timestamp window-1+r with the bands of its window: *)
(* mean = S/w, std^2 = (w*Q - S^2) / (w*(w-1)), band = mean +- num_std*std, *)
(* S the sum and Q the sum of squares of the trailing window                *)
BandRowOk(row, r) ==
    LET t == window + r - 1
    IN  /\ row.t = t
        /\ row.Close = data[t]
        /\ row.middle_band.d > 0
        /\ row.middle_band.n * window = WinSum(t) * row.middle_band.d
        /\ row.var.d > 0
        /\ row.var.n * window * (window - 1) = WinVarN(t) * row.var.d
        /\ row.upper_band.mid = row.middle_band
        /\ row.upper_band.var = row.var
        /\ row.upper_band.k.n * NumStdScale = num_std * row.upper_band.k.d
        /\ row.lower_band.mid = row.middle_band
        /\ row.lower_band.var = row.var
        /\ row.lower_band.k.n * NumStdScale = (-num_std) * row.lower_band.k.d

(* the part of C14 for 2 <= window <= n *)
BandFrameRows ==
    (ret.kind = "signals" /\ 2 <= window /\ window <= Len(data)) =>
        /\ ~ret.raised
        /\ Len(ret.df) = Len(data) - (window - 1)
        /\ \A r \in 1..Len(ret.df) : BandRowOk(ret.df[r], r)

(* C14: generate_signals outputs exactly the n - (window-1) timestamps      *)
(* from window-1 onward, each with middleBand the mean of the trailing      *)
(* window and the bands middleBand +- numStd * sample stdDev of that        *)
(* window; for window > n the output is empty.                              *)
C14_BandFrame ==
    /\ BandFrameRows
    /\ (ret.kind = "signals" /\ 2 <= window /\ window > Len(data)) =>
           ~ret.raised /\ ret.df = <<>>

(* ======================= a rising series: no trade ===================== *)
StrictlyIncreasing(d) == \A i \in 1..(Len(d) - 1) : d[i] < d[i + 1]

(* no Buy, position 0 and strategy return 0 on every row *)
NoTrade(rows) ==
    \A i \in 1..Len(rows) :
        /\ rows[i].signal # 1
        /\ rows[i].position = 0
        /\ rows[i].strategy_returns = Zero

(* the pair gave no score: its backtest never traded and its returns have   *)
(* no positive deviation, or (fewer closes than window) it raised           *)
NoTradePair(e, bt) ==
    /\ e.outcome \in {"skipped", "raised"}
    /\ e.outcome = "raised" <=> bt.raised
    /\ bt.raised => e.window < 2 \/ e.window > Len(data)
    /\ ~bt.raised =>
           /\ NoTrade(bt.positions)
           /\ ~StdPositive(Variance(StrategyReturns(bt.positions)))

FirstBest(sc) ==
    CHOOSE i \in CandidatesIn(sc) :
        /\ \A j \in CandidatesIn(sc) : RLeq(sc[j].score, sc[i].score)
        /\ \A j \in CandidatesIn(sc) : j < i => RLess(sc[j].score, sc[i].score)

(* C16: among pairs of equal maximal score optimize returns the one met     *)
(* first in iteration order (window ascending, then numStd ascending): the  *)
(* best-so-far pair is replaced only by a strictly greater score.           *)
C16_FirstWins ==
    /\ [][(pc = "loop" /\ pc' = "loop"
             /\ <<best_window', best_num_std'>> # <<best_window, best_num_std>>)
          => /\ SharpeGt(best_sharpe', best_sharpe)
             /\ <<best_window', best_num_std'>> = PairAt(cell)]_vars
    /\ [](OptimizeDone =>
             LET sc == Scores(Len(cells))
             IN  /\ \A i \in 1..(Len(cells) - 1) :
                        \/ cells[i].window < cells[i + 1].window
                        \/ /\ cells[i].window = cells[i + 1].window
                           /\ cells[i].num_std < cells[i + 1].num_std
                 /\ CandidatesIn(sc) # {} => Returned = PairAt(FirstBest(sc)))

(* a search in which two pairs share the maximal score, the earlier returned *)
C16_Witness ==
    /\ OptimizeDone
    /\ LET sc == Scores(Len(cells))
       IN  \E i, j \in CandidatesIn(sc) :
               /\ i < j
               /\ sc[i].score = sc[j].score
               /\ \A l \in CandidatesIn(sc) : RLeq(sc[l].score, sc[i].score)
               /\ \A l \in CandidatesIn(sc) : l < i => RLess(sc[l].score, sc[i].score)
               /\ Returned = PairAt(i)

(* ========================= the worked example ========================== *)
(* the record of 0-based index ix: window = 3 drops indices 0 and 1 *)
AtIndex(ix) == Rows[ix - 1]

ScenarioRun ==
    BacktestDone /\ data = Scenario /\ window = 3 /\ num_std = NumStdScale

(* C17: on closes [100,102,104,95,90,96,110,108,95,100] with window 3 and   *)
(* numStd 1: index 3 is below the lower band and index 4 (close 90) is not, *)
(* the first Buy; index 6 is above the upper band and index 7 (close 108)   *)
(* is not, the first Sell; position is 1 exactly on indices 4, 5, 6 and 9;  *)
(* the final portfolioValue is initialCapital * product of                  *)
(* (1 + strategyReturn) = 1.2 * initialCapital.                             *)
C17_Scenario ==
    ScenarioRun =>
        /\ Len(Rows) = 8
        /\ \A ix \in 2..9 : AtIndex(ix).t = ix + 1 /\ AtIndex(ix).price = Scenario[ix + 1]
        /\ belowLower(4) /\ ~belowLower(5)
        /\ AtIndex(4).signal = 1 /\ AtIndex(4).price = 90
        /\ \A ix \in 2..3 : AtIndex(ix).signal # 1
        /\ aboveUpper(7) /\ ~aboveUpper(8)
        /\ AtIndex(7).signal = -1 /\ AtIndex(7).price = 108
        /\ \A ix \in 2..6 : AtIndex(ix).signal # -1
        /\ \A ix \in 2..9 : AtIndex(ix).position = 1 <=> ix \in {4, 5, 6, 9}
        /\ AtIndex(9).portfolio_value = Compounded(8)
        /\ AtIndex(9).portfolio_value = Rat(12 * args.initial_capital, 10)
        /\ [i \in 1..Len(ret.signal_points) |-> ret.signal_points[i].t] = <<5, 8, 10>>

(* the example was run, and its value rose and fell back to 1.2 times *)
C17_Witness ==
    /\ ScenarioRun
    /\ args.initial_capital = 10000
    /\ AtIndex(6).portfolio_value = Rat(110 * 10000, 90)
    /\ AtIndex(9).portfolio_value = FromInt(12000)

(* ========================== a constant series ========================== *)
IsConstant(d) == \A i, j \in 1..Len(d) : d[i] = d[j]

(* the band mid + k * sqrt(var) is the number x *)
BandIs(b, x) == b.mid = x /\ (b.k = Zero \/ b.var = Zero)

ConstantCase ==
    /\ IsConstant(data)
    /\ window >= 2
    /\ window <= Len(data)
    /\ num_std > 0

(* C18: when all closes are equal (window >= 2 within the series, numStd >  *)
(* 0): upper = lower = middle = close at every trimmed timestamp, every     *)
(* signal is None, position is 0 and status OutOfMarket at every timestamp, *)
(* and portfolioValue stays initialCapital.                                 *)
C18_ConstantSeries ==
    /\ (ConstantCase /\ ret.kind = "signals") =>
           /\ ~ret.raised
           /\ Len(ret.df) = Len(data) - window + 1
           /\ \A r \in 1..Len(ret.df) :
                  /\ ret.df[r].middle_band = FromInt(ret.df[r].Close)
                  /\ BandIs(ret.df[r].upper_band, FromInt(ret.df[r].Close))
                  /\ BandIs(ret.df[r].lower_band, FromInt(ret.df[r].Close))
                  /\ ret.df[r].signal = 0
    /\ (ConstantCase /\ ret.kind = "backtest") =>
           /\ ~ret.raised
           /\ Len(Rows) = Len(data) - window + 1
           /\ \A i \in 1..Len(Rows) :
                  /\ Rows[i].signal = 0
                  /\ Rows[i].position = 0
                  /\ Rows[i].position_status = "OUT OF MARKET"
                  /\ Rows[i].portfolio_value = FromInt(args.initial_capital)
           /\ ret.signal_points = <<>>

(* a backtest over three timestamps or more of a constant series *)
C18_Witness ==
    /\ ConstantCase
    /\ BacktestDone
    /\ Len(Rows) >= 3
    /\ Rows[Len(Rows)].portfolio_value = FromInt(args.initial_capital)

(* ===================== metrics of a flat return series ================= *)
ZeroVariance(rs) == \A i, j \in 1..Len(rs) : rs[i] = rs[j]
AllZero(rs) == \A i \in 1..Len(rs) : rs[i] = Zero

BacktestCall == pc = "idle" /\ pc' = "idle" /\ args'.kind = "backtest"

(* C20: backtest carries no state between calls: a call changes neither     *)
(* the strategy's (window, numStd) nor the caller's series, what it returns *)
(* is determined by the series, (window, numStd) and the initial capital    *)
(* alone, whatever was called before, and so calling it again with the      *)
(* same series and capital returns the same records and signal events.      *)
C20_NoHiddenState ==
    [][BacktestCall =>
          /\ data' = data
          /\ window' = window
          /\ num_std' = num_std
          /\ UNCHANGED optvars
          /\ ret' = backtest(data, window, num_std, args'.initial_capital)
          /\ ret' = backtest(data', window', num_std', args'.initial_capital)
          /\ (ret.kind = "backtest" /\ args = args') => ret' = ret]_vars

(* a backtest with trades on a strategy object whose backtest was called    *)
(* before (by optimize, for every pair of its grid)                         *)
C20_Witness ==
    /\ BacktestDone
    /\ \E i \in 1..Len(evaluated) : evaluated[i].outcome = "candidate"
    /\ ret.signal_points # <<>>
    /\ \E i \in 1..Len(Rows) : Rows[i].strategy_returns # Zero

(* =============== the parameters optimize leaves in place =============== *)
(* optimize has returned on this object (the locals of its last run) *)
Optimized == pc = "idle" /\ best_window # None /\ best_num_std # None

(* C21: when optimize has returned (bestWindow, bestNumStd, bestSharpe) the *)
(* object's window and num_std are bestWindow and bestNumStd, with a        *)
(* candidate or with the fallback, whichever pair was tried last and        *)
(* whether or not a pair failed; the backtest called right after it runs    *)
(* with the returned parameters.                                            *)
C21_ParamsAreReturned ==
    Optimized =>
        /\ window = best_window
        /\ num_std = best_num_std
        /\ OptimizeDone => Returned = <<window, num_std>>
        /\ ret.kind = "backtest" =>
               ret = backtest(data, best_window, best_num_std, args.initial_capital)

(* a backtest after an optimize that returned a candidate, in which a pair  *)
(* raised and the last pair tried was not the one returned                  *)
C21_Witness ==
    /\ Optimized
    /\ BacktestDone
    /\ evaluated # <<>>
    /\ <<evaluated[Len(evaluated)].window, evaluated[Len(evaluated)].num_std>>
           # <<best_window, best_num_std>>
    /\ \E i \in 1..Len(evaluated) : evaluated[i].outcome = "raised"
    /\ \E i \in 1..Len(evaluated) :
           /\ evaluated[i].outcome = "candidate"
           /\ <<evaluated[i].window, evaluated[i].num_std>> = <<window, num_std>>

(* ============================ no look-ahead ============================ *)
(* the first k closes of the series *)
Prefix(k) == SubSeq(data, 1, k)

(* another close than c *)
OtherClose(c) == IF c + 1 \in Closes THEN c + 1 ELSE 1

(* the series with every close after the first k replaced by another one *)
Diverging(k) ==
    [i \in 1..Len(data) |-> IF i <= k THEN data[i] ELSE OtherClose(data[i])]

RowsOf(d) == backtest(d, window, num_std, args.initial_capital).positions

(* C22: the records of the timestamps within the first k closes (k >=       *)
(* window) are those of a backtest of the first k closes alone, in every    *)
(* field; so two series that agree on their first k closes, run with the    *)
(* same window, numStd and initialCapital, get identical records there:     *)
(* closes after t never influence the record at t.                          *)
C22_NoLookAhead ==
    BacktestDone =>
        \A k \in window..Len(data) :
            /\ RowsOf(Prefix(k)) = SubSeq(Rows, 1, k - window + 1)
            /\ SubSeq(RowsOf(Diverging(k)), 1, k - window + 1)
                   = SubSeq(Rows, 1, k - window + 1)

(* a run that bought within its first closes and went on for two more *)
C22_Witness ==
    /\ BacktestDone
    /\ \E k \in window..(Len(data) - 2) :
           /\ Rows[k - window + 1].position = 1
           /\ Diverging(k) # data
           /\ RowsOf(Diverging(k)) # Rows

(* ========================= trades alternate ============================ *)
(* the number of rows up to i with the given status *)
StatusCount(st, i) == Cardinality({j \in 1..i : Rows[j].position_status = st})

(* the rows that are trades, in order *)
TradeRows == SelectSeq(Rows, LAMBDA row : row.position_status \in {"BUY & HOLD", "SELL"})

(* C23: the executed trades alternate: the first is a BuyAndHold, no        *)
(* BuyAndHold follows a BuyAndHold without a Sell between, no Sell comes    *)
(* without an unmatched BuyAndHold before it, and at every timestamp        *)
(* (BuyAndHold rows so far) - (Sell rows so far) = position.                *)
C23_TradesAlternate ==
    BacktestDone =>
        /\ \A i \in 1..Len(Rows) :
               StatusCount("BUY & HOLD", i) - StatusCount("SELL", i) = Rows[i].position
        /\ \A n \in 1..Len(TradeRows) :
               TradeRows[n].position_status
                   = IF n % 2 = 1 THEN "BUY & HOLD" ELSE "SELL"

(* a run with a Buy, a Sell and a second Buy, and a Sell signal that came   *)
(* while Flat                                                               *)
C23_Witness ==
    /\ BacktestDone
    /\ Len(TradeRows) >= 3
    /\ \E i \in 1..Len(Rows) :
           Rows[i].signal = -1 /\ Rows[i].position_status = "OUT OF MARKET"

(* ============================== the cash =============================== *)
(* C24: with positive closes and initialCapital > 0, cash[t] >= 0 at every  *)
(* timestamp (holdings never exceed portfolioValue), and whenever           *)
(* position[t] = 0, holdings[t] = 0 and cash[t] = portfolioValue[t].        *)
C24_CashNonNegative ==
    (BacktestDone /\ args.initial_capital > 0 /\ \A i \in 1..Len(data) : data[i] > 0) =>
        \A i \in 1..Len(Rows) :
            /\ RSign(Rows[i].cash) >= 0
            /\ RLeq(Rows[i].holdings, Rows[i].portfolio_value)
            /\ Rows[i].position = 0 =>
                   Rows[i].holdings = Zero /\ Rows[i].cash = Rows[i].portfolio_value

(* the part of C24 about rows without a position *)
FlatRowsHoldNothing ==
    BacktestDone =>
        \A i \in 1..Len(Rows) :
            Rows[i].position = 0 =>
                Rows[i].holdings = Zero /\ Rows[i].cash = Rows[i].portfolio_value
====
